---------------------------- MODULE Spec2Model ----------------------------
(***************************************************************************)
(* The Swarm Board chat widget (src/main.js, src/src/App.tsx): the keyword *)
(* extraction, the retrieval step of handleSendMessage, the chat state     *)
(* machine, the admin gate and the knowledge CRUD against the document     *)
(* store.                                                                  *)
(*                                                                         *)
(* A text is a sequence of one-character strings, so that toLowerCase,     *)
(* the regular expressions and String.includes are computed character by   *)
(* character.  Fixed literals of the program (error messages, replies of   *)
(* the endpoint) are one-element sequences holding the literal.            *)
(***************************************************************************)
EXTENDS Integers, Sequences, FiniteSets, TLC

VARIABLES
    \* ---- React state of CryptoKnowledgeBank
    user, view, apiKey, knowledgeBase, messages, input, isLoading,
    adminPasswordInput, isAdminUnlocked, loginError,
    newItemTitle, newItemCategory, newItemContent, authError,
    \* ---- environment of the component
    variant,      \* which of the three copies of the component runs
    signIn,       \* the signInAnonymously call of initAuth
    now,          \* Date.now()
    calls,        \* completion calls issued by fetch and not yet settled
    storage,      \* localStorage['swarm_chat_history']
    storeKB,      \* the knowledge collection of the document store
    storeConfig,  \* the config/main document of the document store
    writes,       \* addDoc / deleteDoc / setDoc promises not yet settled
    alerts,       \* the texts window.alert has shown, in order
    typedKey,     \* what was last typed into the key field and not saved since
    seenConfig,   \* the docSnap the config callback was last called with
    \* ---- arguments and results of the pure helper, for SpecKeywords
    text, keywords, rejoined, kwPc

vars == <<user, view, apiKey, knowledgeBase, messages, input, isLoading,
          adminPasswordInput, isAdminUnlocked, loginError,
          newItemTitle, newItemCategory, newItemContent, authError,
          variant, signIn, now, calls, storage, storeKB, storeConfig, writes,
          alerts, typedKey, seenConfig, text, keywords, rejoined, kwPc>>

chatVars == <<messages, input, isLoading, calls, storage>>
gateVars == <<adminPasswordInput, isAdminUnlocked, loginError>>
formVars == <<newItemTitle, newItemCategory, newItemContent>>
storeVars == <<storeKB, storeConfig, writes>>
authVars == <<user, authError, signIn>>
kwVars == <<text, keywords, rejoined, kwPc>>

-----------------------------------------------------------------------------
(* Characters *)

UpperChars == {"S", "D", "T", "G", "R", "W"}
LowerChars == {"a", "b", "c", "d", "e", "f", "g", "h", "i", "j", "k", "l", "m",
               "n", "o", "p", "q", "r", "s", "t", "u", "v", "w", "x", "y", "z"}
DigitChars == {"1", "0"}
\* \w of a JavaScript regular expression: [A-Za-z0-9_]
WordChars == UpperChars \cup LowerChars \cup DigitChars \cup {"_"}
\* \s of a JavaScript regular expression (the members used here)
SpaceChars == {" ", "\t", "\n"}

\* String.prototype.toLowerCase, one character
LowerOf(c) ==
    CASE c = "S" -> "s"
      [] c = "D" -> "d"
      [] c = "T" -> "t"
      [] c = "G" -> "g"
      [] c = "R" -> "r"
      [] c = "W" -> "w"
      [] OTHER -> c

toLowerCase(s) == [i \in 1..Len(s) |-> LowerOf(s[i])]

\* .replace(/[^\w\s]/g, '')
stripNonWord(s) == SelectSeq(s, LAMBDA c : c \in WordChars \/ c \in SpaceChars)

\* .split(/\s+/): a maximal run of white space is one separator; a separator
\* at the start or at the end of the string leaves an empty first or last
\* piece, and the empty string splits into one empty piece.
RECURSIVE splitFrom(_, _, _, _)
splitFrom(s, i, cur, out) ==
    IF i > Len(s) THEN Append(out, cur)
    ELSE IF s[i] \in SpaceChars
         THEN IF i > 1 /\ s[i - 1] \in SpaceChars
              THEN splitFrom(s, i + 1, cur, out)
              ELSE splitFrom(s, i + 1, <<>>, Append(out, cur))
         ELSE splitFrom(s, i + 1, Append(cur, s[i]), out)

splitWhitespace(s) == splitFrom(s, 1, <<>>, <<>>)

\* Array.prototype.indexOf: the first index holding v, 0 when there is none
\* (indices from 1 here)
indexOf(a, v) ==
    IF \E i \in 1..Len(a) : a[i] = v
    THEN CHOOSE i \in 1..Len(a) : a[i] = v /\ \A j \in 1..(i - 1) : a[j] # v
    ELSE 0

\* .filter((v, i, a) => a.indexOf(v) === i)
RECURSIVE uniqueFrom(_, _)
uniqueFrom(a, i) ==
    IF i > Len(a) THEN <<>>
    ELSE IF indexOf(a, a[i]) = i
         THEN <<a[i]>> \o uniqueFrom(a, i + 1)
         ELSE uniqueFrom(a, i + 1)

\* w.length > 3
MinKeywordLength == 3

longWords(a) == SelectSeq(a, LAMBDA w : Len(w) > MinKeywordLength)

\* A slip in the order of the chain: the length filter before the strip.
extractKeywordsFilterFirst(t) ==
    LET pieces == longWords(splitWhitespace(toLowerCase(t)))
        cleaned == [i \in 1..Len(pieces) |-> stripNonWord(pieces[i])]
    IN  uniqueFrom(cleaned, 1)

\* A slip in the chain: the Unique filter left out.
extractKeywordsNoUnique(t) ==
    longWords(splitWhitespace(stripNonWord(toLowerCase(t))))

extractKeywords(t) ==
    uniqueFrom(longWords(splitWhitespace(stripNonWord(toLowerCase(t)))), 1)

\* Array.prototype.join(' ') of an array of texts
RECURSIVE joinSpace(_)
joinSpace(a) ==
    IF Len(a) = 0 THEN <<>>
    ELSE IF Len(a) = 1 THEN a[1]
         ELSE a[1] \o <<" ">> \o joinSpace(Tail(a))

\* String.prototype.includes: sub occurs in s as a contiguous run
includes(s, sub) ==
    \E k \in 0..(Len(s) - Len(sub)) :
        \A j \in 1..Len(sub) : s[k + j] = sub[j]

\* String.prototype.trim
RECURSIVE trimStart(_)
trimStart(s) ==
    IF Len(s) > 0 /\ s[1] \in SpaceChars THEN trimStart(Tail(s)) ELSE s

RECURSIVE trimEnd(_)
trimEnd(s) ==
    IF Len(s) > 0 /\ s[Len(s)] \in SpaceChars
    THEN trimEnd(SubSeq(s, 1, Len(s) - 1))
    ELSE s

trim(s) == trimEnd(trimStart(s))

-----------------------------------------------------------------------------
(* The retrieval step of handleSendMessage *)

TitleBoost == 10
KeywordSetPoints == 2
ContentPoints == 1
TopK == 5

\* item.keywords && item.keywords.includes(qKey)
inKeywordSet(item, qKey) ==
    item.hasKeywords /\ \E i \in 1..Len(item.keywords) : item.keywords[i] = qKey

\* a different rule: else if, so that a keyword counts once at most
RECURSIVE keywordOverlapElseIf(_, _, _)
keywordOverlapElseIf(item, queryKeywords, i) ==
    IF i > Len(queryKeywords) THEN 0
    ELSE (IF inKeywordSet(item, queryKeywords[i]) THEN KeywordSetPoints
          ELSE IF includes(toLowerCase(item.content), queryKeywords[i])
               THEN ContentPoints ELSE 0)
         + keywordOverlapElseIf(item, queryKeywords, i + 1)

\* the body of queryKeywords.forEach, summed over the keywords from index i
RECURSIVE keywordOverlap(_, _, _)
keywordOverlap(item, queryKeywords, i) ==
    IF i > Len(queryKeywords) THEN 0
    ELSE (IF inKeywordSet(item, queryKeywords[i]) THEN KeywordSetPoints ELSE 0)
         + (IF includes(toLowerCase(item.content), queryKeywords[i])
            THEN ContentPoints ELSE 0)
         + keywordOverlap(item, queryKeywords, i + 1)

\* a different test: the title looked for in the message
titleMatchQueryHasTitle(item, content) ==
    includes(toLowerCase(content), toLowerCase(item.title))

\* if (item.title.toLowerCase().includes(userMsg.content.toLowerCase()))
titleMatch(item, content) ==
    includes(toLowerCase(item.title), toLowerCase(content))

scoreOf(item, content) ==
    (IF titleMatch(item, content) THEN TitleBoost ELSE 0)
    + keywordOverlap(item, extractKeywords(content), 1)

\* knowledgeBase.map(item => ({ item, score }))
scoredItems(kb, content) ==
    [i \in 1..Len(kb) |-> [item |-> kb[i], score |-> scoreOf(kb[i], content)]]

\* .filter(x => x.score > 0)
positive(a) == SelectSeq(a, LAMBDA x : x.score > 0)

\* A comparison sort that is not stable: x goes before the entries of equal
\* score already placed.
RECURSIVE insertBeforeEqual(_, _)
insertBeforeEqual(sorted, x) ==
    IF Len(sorted) = 0 THEN <<x>>
    ELSE IF Head(sorted).score > x.score
         THEN <<Head(sorted)>> \o insertBeforeEqual(Tail(sorted), x)
         ELSE <<x>> \o sorted

RECURSIVE sortUnstableFrom(_, _, _)
sortUnstableFrom(a, i, sorted) ==
    IF i > Len(a) THEN sorted
    ELSE sortUnstableFrom(a, i + 1, insertBeforeEqual(sorted, a[i]))

sortByScoreUnstable(a) == sortUnstableFrom(a, 1, <<>>)

\* .sort((a, b) => b.score - a.score): Array.prototype.sort is stable, so x
\* goes after every entry whose score is not smaller.
RECURSIVE insertByScore(_, _)
insertByScore(sorted, x) ==
    IF Len(sorted) = 0 THEN <<x>>
    ELSE IF Head(sorted).score >= x.score
         THEN <<Head(sorted)>> \o insertByScore(Tail(sorted), x)
         ELSE <<x>> \o sorted

RECURSIVE sortFrom(_, _, _)
sortFrom(a, i, sorted) ==
    IF i > Len(a) THEN sorted
    ELSE sortFrom(a, i + 1, insertByScore(sorted, a[i]))

sortByScore(a) == sortFrom(a, 1, <<>>)

\* .slice(0, n)
sliceTop(a, n) == SubSeq(a, 1, IF Len(a) < n THEN Len(a) ELSE n)

\* scoredItems.filter(...).sort(...).slice(0, 5)
relevantItems(kb, content) ==
    sliceTop(sortByScore(positive(scoredItems(kb, content))), TopK)

\* .map(x => `[Source: ${x.item.title}]\n${x.item.content}`).join('\n\n')
RECURSIVE renderContext(_)
renderContext(a) ==
    IF Len(a) = 0 THEN <<>>
    ELSE <<"[Source: ">> \o Head(a).item.title \o <<"]\n">> \o Head(a).item.content
         \o (IF Len(a) > 1 THEN <<"\n\n">> \o renderContext(Tail(a)) ELSE <<>>)

NoMatchesPlaceholder == <<"No specific database matches found.">>

\* a slip: the context used as it is, without the || fallback
contextAsIs(ctx) == ctx

\* ${relevantContext || "No specific database matches found."}
contextOrPlaceholder(ctx) == IF ctx = <<>> THEN NoMatchesPlaceholder ELSE ctx

-----------------------------------------------------------------------------
(* Values *)

MaxChunks == 5      \* pieces of a text given to extractKeywords
MaxKB == 6          \* items of a knowledge base given to the retrieval step
MaxMessages == 5    \* messages of a conversation
MaxClock == 1       \* readings of Date.now() apart from the first
MaxStoreItems == 1  \* records of the knowledge collection
MaxWrites == 1      \* store writes in flight
MaxAlerts == 1      \* window.alert calls counted

Variants == {"canvas", "persistent", "app"}
NoUser == "null"
NotTyped == "untouched"
NoSnapshot == [exists |-> FALSE, apiKey |-> "no snapshot yet"]
Users == {"anon-1"}

AdminPassword == ".m4nt1ss4"
Passwords == {"", AdminPassword, ".M4NT1SS4"}
Keys == {"", "AIza-1", "AIza-2"}
General == <<"G", "e", "n", "e", "r", "a", "l">>
Roadmap == <<"R", "o", "a", "d", "m", "a", "p">>
Technical == <<"T", "e", "c", "h", "n", "i", "c", "a", "l">>

Swarm == <<"S", "w", "a", "r", "m">>
swarm == <<"s", "w", "a", "r", "m">>
the == <<"t", "h", "e">>
abPunct == <<"a", ".", "b", "!">>
data == <<"d", "a", "t", "a">>
Team == <<"T", "e", "a", "m">>
team == <<"t", "e", "a", "m">>
v10 == <<"_", "1", "0", "?">>
Categories == {General, Roadmap, Team, Technical}
space == <<" ">>
tab == <<"\t">>

\* ---- texts for extractKeywords: up to MaxChunks pieces, run together
Chunks == {Swarm, swarm, the, abPunct, v10, space, tab}

RECURSIVE concatAll(_)
concatAll(a) == IF Len(a) = 0 THEN <<>> ELSE Head(a) \o concatAll(Tail(a))

Texts ==
    { concatAll(a) : a \in UNION { [1..n -> Chunks] : n \in 0..MaxChunks } }

\* ---- knowledge items
Item(id, title, category, content, hasKeywords, kws) ==
    [id |-> id, title |-> title, category |-> category, content |-> content,
     hasKeywords |-> hasKeywords, keywords |-> kws]

DocId(i) == <<"doc", i>>

\* what handleAddItem writes for a title, a content and a category
indexedItem(id, title, category, content) ==
    Item(id, title, category, content, TRUE,
         extractKeywords(title \o space \o content \o space \o category))

\* the item shapes of the retrieval harness; the third is a record that some
\* other writer left without a keywords field
ItemShapes ==
    << [title |-> Swarm, category |-> General,
        content |-> Swarm \o space \o data, indexed |-> TRUE],
       [title |-> Swarm \o space \o data \o space \o team, category |-> General,
        content |-> the, indexed |-> TRUE],
       [title |-> data, category |-> Technical,
        content |-> the \o space \o data, indexed |-> FALSE] >>

shapeItem(id, k) ==
    LET sh == ItemShapes[k]
    IN  IF sh.indexed
        THEN indexedItem(id, sh.title, sh.category, sh.content)
        ELSE Item(id, sh.title, sh.category, sh.content, FALSE, <<>>)

KnowledgeBasesOf(n) ==
    { [i \in 1..n |-> shapeItem(DocId(i), f[i])] : f \in [1..n -> 1..Len(ItemShapes)] }

KnowledgeBases == UNION { KnowledgeBasesOf(n) : n \in 0..MaxKB }

Queries == {swarm \o space \o data, Team, Swarm \o space \o data \o <<"?">>}

\* ---- the worked example of the retrieval step: one record and one question
TokenomicsTitle == <<"T", "o", "k", "e", "n", "o", "m", "i", "c", "s">>
TokenomicsContent ==
    <<"T", "o", "t", "a", "l", " ", "s", "u", "p", "p", "l", "y", " ", "i", "s", " ", "1", "0", "0", "0", "0", "0", "0", " ", "t", "o", "k", "e", "n", "s">>
TokenomicsKeywords ==
    << <<"t", "o", "k", "e", "n", "o", "m", "i", "c", "s">>,
       <<"t", "o", "t", "a", "l">>,
       <<"s", "u", "p", "p", "l", "y">>,
       <<"1", "0", "0", "0", "0", "0", "0">>,
       <<"t", "o", "k", "e", "n", "s">> >>
TokenomicsKB ==
    << Item(DocId(1), TokenomicsTitle, General, TokenomicsContent, TRUE,
            TokenomicsKeywords) >>
TokenomicsQuery ==
    <<"W", "h", "a", "t", " ", "i", "s", " ", "t", "h", "e", " ", "t", "o", "k", "e", "n", "o", "m", "i", "c", "s", " ", "s", "u", "p", "p", "l", "y", "?">>

\* the knowledge bases and queries the retrieval step is run on
RetrievalCases ==
    (KnowledgeBases \X Queries) \cup {<<TokenomicsKB, TokenomicsQuery>>}

\* ---- messages
Message(id, role, content, timestamp) ==
    [id |-> id, role |-> role, content |-> content, timestamp |-> timestamp]

ClockId(t) == <<"ms", t>>

WelcomeText(v) ==
    IF v = "persistent"
    THEN <<"Greetings. I am the Swarm Leader of The Swarm Board. What'd you like to know?.">>
    ELSE <<"Greetings. I am the Oracle for The Swarm Board. Ask me anything about the project, roadmap, or tokenomics.">>

Welcome(v, t) == Message(<<"welcome">>, "ai", WelcomeText(v), t)

OfflineMessage == <<"System Offline: API Key not configured by Admin.">>
FallbackReply == <<"Communication error with neural net.">>
ErrorPrefix == <<"Error: ">>

\* a slip: `Error: ${error}`, which renders the Error object as "Error: " and
\* its message
errorContentOfError(message) == ErrorPrefix \o <<"Error: ">> \o message

\* `Error: ${error.message}`
errorContent(message) == ErrorPrefix \o message

\* what the endpoint, or the transport under it, can answer
ReplyTexts == {<<"The swarm has 1000000 tokens.">>}
ApiErrorMessages == {<<"API key not valid. Please pass a valid API key.">>}
TransportErrorMessages == {<<"Failed to fetch">>}

-----------------------------------------------------------------------------
(* Local storage (the persistent copy, src/main.js 601-1255) *)

NoEntry == [kind |-> "absent", value |-> <<>>]
Unparseable == [kind |-> "text", value |-> <<>>]

\* ---- JSON.stringify and JSON.parse of a message sequence: the array keeps
\* its order and each object its four members; a string is written between
\* quotes with ", \ and the control characters escaped, a number as its
\* numeral

jsonEscapeChar(c) ==
    CASE c = "\"" -> <<"\\", "\"">>
      [] c = "\\" -> <<"\\", "\\">>
      [] c = "\n" -> <<"\\", "n">>
      [] c = "\t" -> <<"\\", "t">>
      [] OTHER -> <<c>>

\* a string with nothing to escape is written as it is
RECURSIVE jsonEscape(_)
jsonEscape(s) ==
    IF \A i \in 1..Len(s) : jsonEscapeChar(s[i]) = <<s[i]>> THEN s
    ELSE jsonEscapeChar(Head(s)) \o jsonEscape(Tail(s))

jsonUnescapeChar(c) ==
    CASE c = "n" -> "\n"
      [] c = "t" -> "\t"
      [] OTHER -> c

RECURSIVE jsonUnescape(_)
jsonUnescape(s) ==
    IF \A i \in 1..Len(s) : s[i] # "\\" THEN s
    ELSE IF Head(s) = "\\" /\ Len(s) >= 2
         THEN <<jsonUnescapeChar(s[2])>> \o jsonUnescape(SubSeq(s, 3, Len(s)))
         ELSE <<Head(s)>> \o jsonUnescape(Tail(s))

quoted(s) == <<"\"">> \o s \o <<"\"">>
unquoted(s) == SubSeq(s, 2, Len(s) - 1)

\* the timestamps and ids a stored history can hold
Timestamps == (0 - 2)..(MaxClock + 1)
numeral(n) == ToString(n)
numberOf(t) == CHOOSE n \in Timestamps : numeral(n) = t

\* an id is the numeral of a clock reading, or 'welcome': nothing to escape
stringifyMessage(m) ==
    [id |-> quoted(m.id),
     role |-> quoted(<<m.role>>),
     content |-> quoted(jsonEscape(m.content)),
     timestamp |-> numeral(m.timestamp)]

parseMessage(j) ==
    [id |-> unquoted(j.id),
     role |-> unquoted(j.role)[1],
     content |-> jsonUnescape(unquoted(j.content)),
     timestamp |-> numberOf(j.timestamp)]

JSONstringify(m) == [i \in 1..Len(m) |-> stringifyMessage(m[i])]
JSONparse(v) == [i \in 1..Len(v) |-> parseMessage(v[i])]

\* localStorage.setItem('swarm_chat_history', JSON.stringify(m))
Stored(m) == [kind |-> "json", value |-> JSONstringify(m)]

\* a slip: useEffect(..., []), which writes the key after the first render only
messagesEffectOnMountOnly(m) == storage

\* useEffect(() => localStorage.setItem(...), [messages]): runs after every
\* render that changed messages, in the persistent copy only
afterMessagesEffect(m) == IF variant = "persistent" THEN Stored(m) ELSE storage

\* the useState initializer of messages
initialMessages(v, saved) ==
    IF v = "persistent" /\ saved.kind = "json"
    THEN JSONparse(saved.value)
    ELSE <<Welcome(v, 0)>>

\* what an earlier session can have left under the key
EarlierHistories ==
    { <<Welcome("persistent", 0),
        Message(ClockId(0 - 2), "user", Team \o <<"\"", "\\", "\n", "?">>, 0 - 2)>> }

SavedEntries == {NoEntry, Unparseable} \cup { Stored(h) : h \in EarlierHistories }

-----------------------------------------------------------------------------
(* Initial state: the component after its first render and its mount effects *)

InitComponent(v, saved) ==
    /\ variant = v
    /\ user = NoUser
    /\ view = "chat"
    /\ apiKey = ""
    /\ knowledgeBase = <<>>
    /\ messages = initialMessages(v, saved)
    /\ input = <<>>
    /\ isLoading = FALSE
    /\ adminPasswordInput = ""
    /\ isAdminUnlocked = FALSE
    /\ loginError = FALSE
    /\ newItemTitle = <<>>
    /\ newItemCategory = General
    /\ newItemContent = <<>>
    /\ authError = <<>>
    /\ signIn = "pending"
    /\ now = 0
    /\ calls = <<>>
    /\ storage = IF v = "persistent" THEN Stored(initialMessages(v, saved)) ELSE NoEntry
    /\ writes = <<>>
    /\ alerts = <<>>
    /\ typedKey = NotTyped
    /\ seenConfig = NoSnapshot

KeywordsIdle ==
    /\ text = <<>>
    /\ keywords = <<>>
    /\ rejoined = <<>>
    /\ kwPc = "idle"

-----------------------------------------------------------------------------
(* The chat: handleSendMessage and the completion call *)

ChatInputs == {space \o tab, swarm \o space \o data}

\* onChange={(e) => setInput(e.target.value)}
setInput(s) ==
    /\ view = "chat"
    /\ input' = s
    /\ UNCHANGED <<view, apiKey, typedKey, seenConfig, knowledgeBase, messages, isLoading, variant, now, calls, storage, alerts, kwVars, gateVars, formVars, storeVars, authVars>>

\* const userMsg = { id: Date.now().toString(), role: 'user', content: input, ... }
userMessage == Message(ClockId(now), "user", input, now)

\* the message both setMessages calls after the try build
settledMessage(role, content) == Message(ClockId(now + 1), role, content, now)

\* the request handed to fetch, with what the retrieval step computed for it
Call(userMsg) ==
    [userMsg |-> userMsg,
     key |-> apiKey,
     scored |-> scoredItems(knowledgeBase, userMsg.content),
     relevant |-> relevantItems(knowledgeBase, userMsg.content),
     context |-> contextOrPlaceholder(
                    renderContext(relevantItems(knowledgeBase, userMsg.content)))]

\* room for the user message and for the message of every open call
roomToSend == Len(messages) + Len(calls) + 2 <= MaxMessages

\* if (!input.trim()) return;
sendBlank ==
    /\ trim(input) = <<>>
    /\ UNCHANGED vars

\* a slip: the key test left out, so the request goes out with an empty key
sendKeylessNoCheck ==
    /\ trim(input) # <<>>
    /\ apiKey = ""
    /\ roomToSend
    /\ messages' = Append(messages, userMessage)
    /\ input' = <<>>
    /\ isLoading' = TRUE
    /\ calls' = Append(calls, Call(userMessage))
    /\ storage' = afterMessagesEffect(messages')
    /\ UNCHANGED <<view, apiKey, typedKey, seenConfig, knowledgeBase, variant, now, alerts, kwVars, gateVars, formVars, storeVars, authVars>>

\* if (!apiKey) throw ...: caught in the same turn, no await is reached
sendKeyless ==
    /\ trim(input) # <<>>
    /\ apiKey = ""
    /\ roomToSend
    /\ messages' = messages \o <<userMessage,
                                 settledMessage("system", errorContent(OfflineMessage))>>
    /\ input' = <<>>
    /\ isLoading' = FALSE
    /\ storage' = afterMessagesEffect(messages')
    /\ UNCHANGED <<view, apiKey, typedKey, seenConfig, knowledgeBase, variant, now, calls, alerts, kwVars, gateVars, formVars, storeVars, authVars>>

\* the handler up to await fetch(...)
sendWithKey ==
    /\ trim(input) # <<>>
    /\ apiKey # ""
    /\ roomToSend
    /\ messages' = Append(messages, userMessage)
    /\ input' = <<>>
    /\ isLoading' = TRUE
    /\ calls' = Append(calls, Call(userMessage))
    /\ storage' = afterMessagesEffect(messages')
    /\ UNCHANGED <<view, apiKey, typedKey, seenConfig, knowledgeBase, variant, now, alerts, kwVars, gateVars, formVars, storeVars, authVars>>

handleSendMessage == sendBlank \/ sendKeyless \/ sendWithKey

\* <button onClick={handleSendMessage} disabled={isLoading}>
ClickSend ==
    /\ view = "chat"
    /\ ~isLoading
    /\ handleSendMessage

\* onKeyDown={(e) => e.key === 'Enter' && handleSendMessage()}
PressEnter ==
    /\ view = "chat"
    /\ handleSendMessage

\* what a call can settle with
Outcome(kind, t) == [kind |-> kind, text |-> t]

Outcomes ==
    { Outcome("reply", t) : t \in ReplyTexts \cup {<<>>} }
    \cup { Outcome("noCandidates", <<>>) }
    \cup { Outcome("apiError", m) : m \in ApiErrorMessages }
    \cup { Outcome("transport", m) : m \in TransportErrorMessages }

\* a slip: the text taken as it comes, without the || fallback
aiTextNoFallback(o) == o.text

\* data.candidates?.[0]?.content?.parts?.[0]?.text || "Communication error ..."
aiText(o) == IF o.kind = "reply" /\ o.text # <<>> THEN o.text ELSE FallbackReply

\* the message the code appends for an outcome: the try's own setMessages,
\* or the catch's
outcomeMessage(o) ==
    IF o.kind \in {"reply", "noCandidates"}
    THEN settledMessage("ai", aiText(o))
    ELSE settledMessage("system", errorContent(o.text))

removeAt(a, i) == SubSeq(a, 1, i - 1) \o SubSeq(a, i + 1, Len(a))

\* a slip: setIsLoading(false) at the end of the try instead of in finally
SettleCallNoFinally(i, o) ==
    /\ i \in 1..Len(calls)
    /\ messages' = Append(messages, outcomeMessage(o))
    /\ isLoading' = IF o.kind \in {"reply", "noCandidates"} THEN FALSE ELSE isLoading
    /\ calls' = removeAt(calls, i)
    /\ storage' = afterMessagesEffect(messages')
    /\ UNCHANGED <<view, apiKey, typedKey, seenConfig, knowledgeBase, input, variant, now, alerts, kwVars, gateVars, formVars, storeVars, authVars>>

\* a slip: setMessages([...messages, msg]) over the messages the handler
\* closed over when the send began, in place of the updater prev => [...prev, msg]
SettleCallStale(i, o) ==
    /\ i \in 1..Len(calls)
    /\ messages' = <<Welcome(variant, now), calls[i].userMsg, outcomeMessage(o)>>
    /\ isLoading' = FALSE
    /\ calls' = removeAt(calls, i)
    /\ storage' = afterMessagesEffect(messages')
    /\ UNCHANGED <<view, apiKey, typedKey, seenConfig, knowledgeBase, input, variant, now, alerts, kwVars, gateVars, formVars, storeVars, authVars>>

\* the handler from the settling of await fetch / await response.json()
\* to the end of finally
SettleCall(i, o) ==
    /\ i \in 1..Len(calls)
    /\ messages' = Append(messages, outcomeMessage(o))
    /\ isLoading' = FALSE
    /\ calls' = removeAt(calls, i)
    /\ storage' = afterMessagesEffect(messages')
    /\ UNCHANGED <<view, apiKey, typedKey, seenConfig, knowledgeBase, input, variant, now, alerts, kwVars, gateVars, formVars, storeVars, authVars>>

\* handleClearHistory and the messages effect that follows it
handleClearHistory(confirmed) ==
    /\ variant = "persistent"
    /\ IF confirmed
       THEN /\ messages' = <<Welcome(variant, now)>>
            /\ storage' = afterMessagesEffect(messages')
       ELSE UNCHANGED <<messages, storage>>
    /\ UNCHANGED <<view, apiKey, typedKey, seenConfig, knowledgeBase, input, isLoading, variant, now, calls, alerts, kwVars, gateVars, formVars, storeVars, authVars>>

\* Date.now() moves on
ClockTick ==
    /\ now < MaxClock
    /\ now' = now + 1
    /\ UNCHANGED <<view, apiKey, typedKey, seenConfig, knowledgeBase, variant, alerts, kwVars, chatVars, gateVars, formVars, storeVars, authVars>>

-----------------------------------------------------------------------------
(* The document store, as far as the chat reads it *)

\* the config/main document: absent, or holding the fields setDoc merged in
NoDoc == [exists |-> FALSE, apiKey |-> ""]
ConfigDoc(k) == [exists |-> TRUE, apiKey |-> k]
ConfigDocs == {NoDoc} \cup { ConfigDoc(k) : k \in Keys }

unchangedByKeywords ==
    UNCHANGED <<view, apiKey, typedKey, seenConfig, knowledgeBase, variant, now, alerts, chatVars, gateVars, formVars, storeVars, authVars>>

-----------------------------------------------------------------------------
(* extractKeywords on its own: every text of Texts, then its own output *)

InitKeywords ==
    /\ InitComponent("app", NoEntry)
    /\ storeKB = <<>>
    /\ storeConfig = NoDoc
    /\ text \in Texts
    /\ keywords = <<>>
    /\ rejoined = <<>>
    /\ kwPc = "idle"

\* keywords = extractKeywords(text)
Extract ==
    /\ kwPc = "idle"
    /\ keywords' = extractKeywords(text)
    /\ kwPc' = "extracted"
    /\ UNCHANGED <<text, rejoined>>
    /\ unchangedByKeywords

\* extractKeywords(keywords.join(' '))
ExtractAgain ==
    /\ kwPc = "extracted"
    /\ rejoined' = extractKeywords(joinSpace(keywords))
    /\ kwPc' = "rejoined"
    /\ UNCHANGED <<text, keywords>>
    /\ unchangedByKeywords

NextKeywords == Extract \/ ExtractAgain

SpecKeywords == InitKeywords /\ [][NextKeywords]_vars

-----------------------------------------------------------------------------
(* The retrieval step on its own: handleSendMessage over every knowledge    *)
(* base of KnowledgeBases and every query of Queries                        *)

InitRetrieval ==
    /\ variant = "app"
    /\ user \in Users
    /\ view = "chat"
    /\ apiKey \in {"", "AIza-1"}
    /\ \E case \in RetrievalCases : knowledgeBase = case[1] /\ input = case[2]
    /\ messages = <<Welcome("app", 0)>>
    /\ isLoading = FALSE
    /\ adminPasswordInput = ""
    /\ isAdminUnlocked = FALSE
    /\ loginError = FALSE
    /\ newItemTitle = <<>>
    /\ newItemCategory = General
    /\ newItemContent = <<>>
    /\ authError = <<>>
    /\ signIn = "ok"
    /\ now = 0
    /\ calls = <<>>
    /\ storage = NoEntry
    /\ storeKB = knowledgeBase
    /\ storeConfig = ConfigDoc(apiKey)
    /\ writes = <<>>
    /\ alerts = <<>>
    /\ typedKey = NotTyped
    /\ seenConfig = storeConfig
    /\ KeywordsIdle

NextRetrieval == ClickSend \/ PressEnter

SpecRetrieval == InitRetrieval /\ [][NextRetrieval]_vars

-----------------------------------------------------------------------------
(* Sign-in and the two store subscriptions of useEffect [user] *)

AuthErrorMessages == {<<"Firebase: Error (auth/admin-restricted-operation).">>}

\* signInAnonymously resolves and onAuthStateChanged delivers the user;
\* the persistent copy then runs setAuthError('')
SignInSucceeds(u) ==
    /\ signIn = "pending"
    /\ signIn' = "ok"
    /\ user' = u
    /\ authError' = <<>>
    /\ UNCHANGED <<view, apiKey, typedKey, seenConfig, knowledgeBase, variant, now, alerts, kwVars,
                   chatVars, gateVars, formVars, storeVars>>

\* signInAnonymously rejects: the persistent copy keeps the message, the
\* app copy logs it, the canvas copy leaves the rejection unhandled
SignInFails(m) ==
    /\ signIn = "pending"
    /\ signIn' = "failed"
    /\ authError' = IF variant = "persistent" THEN m ELSE authError
    /\ UNCHANGED <<user, view, apiKey, typedKey, seenConfig, knowledgeBase, variant, now, alerts,
                   kwVars, chatVars, gateVars, formVars, storeVars>>

\* onAuthStateChanged delivers null after a user: the effect's cleanup
\* closes both subscriptions
SessionLost ==
    /\ user # NoUser
    /\ user' = NoUser
    /\ UNCHANGED <<authError, signIn, view, apiKey, typedKey, seenConfig, knowledgeBase, variant, now,
                   alerts, kwVars, chatVars, gateVars, formVars, storeVars>>

\* a slip: the effect subscribing without the test of user
subscribedAlways == TRUE

\* if (!user) return;  -- before both onSnapshot calls
subscribed == user # NoUser

\* a slip: the callback putting back a whole state object it closed over
\* at subscription time, so what was typed since is lost
KnowledgeSnapshotClobbering ==
    /\ subscribed
    /\ knowledgeBase' = storeKB
    /\ input' = <<>>
    /\ newItemTitle' = <<>>
    /\ UNCHANGED <<view, apiKey, typedKey, seenConfig, variant, now, alerts, kwVars,
                   messages, isLoading, calls, storage, gateVars,
                   newItemCategory, newItemContent, storeVars, authVars>>

\* the knowledge onSnapshot callback: items rebuilt from the snapshot
KnowledgeSnapshot ==
    /\ subscribed
    /\ knowledgeBase' = storeKB
    /\ UNCHANGED <<view, apiKey, typedKey, seenConfig, variant, now, alerts, kwVars,
                   chatVars, gateVars, formVars, storeVars, authVars>>

\* the knowledge onSnapshot error callback: console.error only
KnowledgeReadError ==
    /\ subscribed
    /\ UNCHANGED vars

\* the config onSnapshot callback
ConfigSnapshot ==
    /\ subscribed
    /\ apiKey' = IF storeConfig.exists /\ storeConfig.apiKey # ""
                 THEN storeConfig.apiKey
                 ELSE apiKey
    /\ seenConfig' = storeConfig
    /\ UNCHANGED <<view, knowledgeBase, variant, now, alerts, typedKey, kwVars,
                   chatVars, gateVars, formVars, storeVars, authVars>>

-----------------------------------------------------------------------------
(* The admin gate *)

\* onClick={() => setView(v)} of the sidebar
setView(v) ==
    /\ view' = v
    /\ UNCHANGED <<apiKey, typedKey, seenConfig, knowledgeBase, variant, now, alerts, kwVars,
                   chatVars, gateVars, formVars, storeVars, authVars>>

\* a slip: the panel rendered without the test of isAdminUnlocked
panelShownUngated == view = "admin"

\* renderAdmin shows the login form while locked and the panel once unlocked
loginFormShown == view = "admin" /\ ~isAdminUnlocked
panelShown == view = "admin" /\ isAdminUnlocked

\* a different handler: onChange also running setLoginError(false)
setAdminPasswordInputClearing(p) ==
    /\ loginFormShown
    /\ adminPasswordInput' = p
    /\ loginError' = FALSE
    /\ UNCHANGED <<isAdminUnlocked, view, apiKey, typedKey, seenConfig, knowledgeBase,
                   variant, now, alerts, kwVars, chatVars, formVars, storeVars,
                   authVars>>

\* onChange={(e) => setAdminPasswordInput(e.target.value)}
setAdminPasswordInput(p) ==
    /\ loginFormShown
    /\ adminPasswordInput' = p
    /\ UNCHANGED <<isAdminUnlocked, loginError, view, apiKey, typedKey, seenConfig, knowledgeBase,
                   variant, now, alerts, kwVars, chatVars, formVars, storeVars,
                   authVars>>

\* a slip: the comparison ignoring case
passwordMatchesAnyCase == adminPasswordInput \in {AdminPassword, ".M4NT1SS4"}

\* adminPasswordInput === '.m4nt1ss4'
passwordMatches == adminPasswordInput = AdminPassword

handleAdminLogin ==
    /\ loginFormShown
    /\ IF passwordMatches
       THEN /\ isAdminUnlocked' = TRUE
            /\ loginError' = FALSE
            /\ adminPasswordInput' = ""
       ELSE /\ loginError' = TRUE
            /\ UNCHANGED <<isAdminUnlocked, adminPasswordInput>>
    /\ UNCHANGED <<view, apiKey, typedKey, seenConfig, knowledgeBase, variant, now, alerts, kwVars,
                   chatVars, formVars, storeVars, authVars>>

\* LOCK TERMINAL: onClick={() => setIsAdminUnlocked(false)}
lockTerminal ==
    /\ panelShown
    /\ isAdminUnlocked' = FALSE
    /\ UNCHANGED <<adminPasswordInput, loginError, view, apiKey, typedKey, seenConfig, knowledgeBase,
                   variant, now, alerts, kwVars, chatVars, formVars, storeVars,
                   authVars>>

\* the key field of the panel: onChange={(e) => setApiKey(e.target.value)},
\* which the browser fires when the value of the field changes
setApiKey(k) ==
    /\ panelShown
    /\ k # apiKey
    /\ apiKey' = k
    /\ typedKey' = k
    /\ UNCHANGED <<view, knowledgeBase, variant, now, alerts, seenConfig, kwVars,
                   chatVars, gateVars, formVars, storeVars, authVars>>

-----------------------------------------------------------------------------
(* Knowledge CRUD and the shared key: the forms of the panel, the handlers  *)
(* and the store writes they await                                          *)

FormTitles == {<<>>, Swarm}
FormContents == {<<>>, the \o space \o data}
FormCategories == {General, Team}

setNewItemTitle(t) ==
    /\ panelShown
    /\ newItemTitle' = t
    /\ UNCHANGED <<newItemCategory, newItemContent, view, apiKey, typedKey, seenConfig, knowledgeBase,
                   variant, now, alerts, kwVars, chatVars, gateVars, storeVars,
                   authVars>>

setNewItemContent(c) ==
    /\ panelShown
    /\ newItemContent' = c
    /\ UNCHANGED <<newItemTitle, newItemCategory, view, apiKey, typedKey, seenConfig, knowledgeBase,
                   variant, now, alerts, kwVars, chatVars, gateVars, storeVars,
                   authVars>>

setNewItemCategory(c) ==
    /\ panelShown
    /\ newItemCategory' = c
    /\ UNCHANGED <<newItemTitle, newItemContent, view, apiKey, typedKey, seenConfig, knowledgeBase,
                   variant, now, alerts, kwVars, chatVars, gateVars, storeVars,
                   authVars>>

\* window.alert(m)
alert(m) == alerts' = Append(alerts, m)
roomToAlert == Len(alerts) < MaxAlerts

Write(op, id, item, key) == [op |-> op, id |-> id, item |-> item, key |-> key]
NoItem == Item(<<>>, <<>>, <<>>, <<>>, FALSE, <<>>)

\* the record handleAddItem hands to addDoc; the store assigns the id
newRecord == indexedItem(<<>>, newItemTitle, newItemCategory, newItemContent)

NotConnectedAlert == <<"Error: You are not connected to the database. \n\nPossible fix: Enable 'Anonymous' in Firebase Authentication console.">>
NotAuthenticatedAlert == <<"Error: Not authenticated. Cannot write to database.">>

\* handleSaveSettings up to await setDoc(...)
handleSaveSettings ==
    /\ panelShown
    /\ IF user = NoUser
       THEN /\ IF variant = "persistent"
               THEN roomToAlert /\ alert(NotConnectedAlert)
               ELSE UNCHANGED alerts
            /\ UNCHANGED <<writes, typedKey>>
       ELSE /\ Len(writes) < MaxWrites
            /\ writes' = Append(writes, Write("setConfig", <<>>, NoItem, apiKey))
            /\ typedKey' = NotTyped
            /\ UNCHANGED alerts
    /\ UNCHANGED <<storeKB, storeConfig, view, apiKey, seenConfig, knowledgeBase,
                   variant, now, kwVars, chatVars, gateVars, formVars, authVars>>

\* a slip: the test of the two fields left out
handleAddItemNoValidation ==
    /\ panelShown
    /\ IF user = NoUser
       THEN /\ IF variant = "persistent"
               THEN roomToAlert /\ alert(NotAuthenticatedAlert)
               ELSE UNCHANGED alerts
            /\ UNCHANGED writes
       ELSE /\ Len(writes) < MaxWrites
            /\ writes' = Append(writes, Write("add", <<>>, newRecord, ""))
            /\ UNCHANGED alerts
    /\ UNCHANGED <<storeKB, storeConfig, view, apiKey, typedKey, seenConfig, knowledgeBase, variant, now,
                   kwVars, chatVars, gateVars, formVars, authVars>>

\* handleAddItem up to await addDoc(...)
handleAddItem ==
    /\ panelShown
    /\ IF newItemTitle = <<>> \/ newItemContent = <<>>
       THEN UNCHANGED <<writes, alerts>>
       ELSE IF user = NoUser
            THEN /\ IF variant = "persistent"
                    THEN roomToAlert /\ alert(NotAuthenticatedAlert)
                    ELSE UNCHANGED alerts
                 /\ UNCHANGED writes
            ELSE /\ Len(writes) < MaxWrites
                 /\ writes' = Append(writes, Write("add", <<>>, newRecord, ""))
                 /\ UNCHANGED alerts
    /\ UNCHANGED <<storeKB, storeConfig, view, apiKey, typedKey, seenConfig, knowledgeBase, variant, now,
                   kwVars, chatVars, gateVars, formVars, authVars>>

\* a slip: the item taken off the local list at once, ahead of the snapshot
handleDeleteItemOptimistic(id) ==
    /\ panelShown
    /\ \E i \in 1..Len(knowledgeBase) : knowledgeBase[i].id = id
    /\ IF user = NoUser
       THEN UNCHANGED writes
       ELSE /\ Len(writes) < MaxWrites
            /\ writes' = Append(writes, Write("delete", id, NoItem, ""))
    /\ knowledgeBase' = SelectSeq(knowledgeBase, LAMBDA it : it.id # id)
    /\ UNCHANGED <<storeKB, storeConfig, alerts, view, apiKey, typedKey, seenConfig, variant, now,
                   kwVars, chatVars, gateVars, formVars, authVars>>

\* handleDeleteItem(item.id) of a listed item, up to await deleteDoc(...)
handleDeleteItem(id) ==
    /\ panelShown
    /\ \E i \in 1..Len(knowledgeBase) : knowledgeBase[i].id = id
    /\ IF user = NoUser
       THEN UNCHANGED writes
       ELSE /\ Len(writes) < MaxWrites
            /\ writes' = Append(writes, Write("delete", id, NoItem, ""))
    /\ UNCHANGED <<storeKB, storeConfig, alerts, view, apiKey, typedKey, seenConfig, knowledgeBase,
                   variant, now, kwVars, chatVars, gateVars, formVars, authVars>>


\* ---- the store's side of a write

FailureCodes == {"permission-denied", "unavailable"}
FailureMessage(code) ==
    IF code = "permission-denied"
    THEN <<"Missing or insufficient permissions.">>
    ELSE <<"The service is currently unavailable.">>

idsOf(items) == { items[i].id : i \in 1..Len(items) }

usedIds == idsOf(storeKB) \cup idsOf(knowledgeBase)
           \cup { writes[i].id : i \in 1..Len(writes) }

\* the store gives a new record an id no record has
freshId == DocId(CHOOSE n \in 1..(2 * MaxStoreItems + MaxWrites + 1) :
                    /\ DocId(n) \notin usedIds
                    /\ \A m \in 1..(n - 1) : DocId(m) \in usedIds)

insertAt(a, pos, x) == SubSeq(a, 1, pos - 1) \o <<x>> \o SubSeq(a, pos, Len(a))

withoutId(items, id) == SelectSeq(items, LAMBDA it : it.id # id)

\* the collection after write w; pos is where the new record's id sorts
appliedKB(w, pos) ==
    CASE w.op = "add" -> insertAt(storeKB, pos, [w.item EXCEPT !.id = freshId])
      [] w.op = "delete" -> withoutId(storeKB, w.id)
      [] OTHER -> storeKB

\* setDoc(ref, { apiKey }, { merge: true })
appliedConfig(w) == IF w.op = "setConfig" THEN ConfigDoc(w.key) ELSE storeConfig

NoAlert == <<>>

\* the alert of the handler's continuation after the awaited write resolved
successAlert(w) ==
    CASE w.op = "setConfig" ->
            IF variant = "persistent"
            THEN <<"Success: API Key saved to database.">>
            ELSE <<"Configuration saved to database. All users will now use this key.">>
      [] w.op = "add" ->
            IF variant = "persistent" THEN <<"Record added successfully.">> ELSE NoAlert
      [] OTHER -> NoAlert

\* the alert of the handler's catch block
failureAlert(w, code) ==
    CASE w.op = "setConfig" ->
            (CASE variant = "canvas" -> <<"Error saving configuration.">>
               [] variant = "app" ->
                    <<"Error saving configuration. Check Firebase Console Rules.">>
               [] OTHER ->
                    IF code = "permission-denied"
                    THEN <<"Permission Denied: Go to Firebase Console > Firestore > Rules and change 'allow write: if false' to 'allow write: if true'.">>
                    ELSE <<"Error saving: ">> \o FailureMessage(code))
      [] w.op = "add" ->
            IF variant # "persistent" THEN NoAlert
            ELSE IF code = "permission-denied"
                 THEN <<"Permission Denied: Check Firestore Rules in Firebase Console.">>
                 ELSE <<"Error adding item.">>
      [] OTHER -> NoAlert

showIfAny(a) == IF a = NoAlert THEN UNCHANGED alerts ELSE roomToAlert /\ alert(a)

\* the awaited write resolves: the store holds it, the handler goes on
WriteSucceeds(i, pos) ==
    /\ i \in 1..Len(writes)
    /\ pos \in 1..(Len(storeKB) + 1)
    /\ writes[i].op = "add" => Len(storeKB) < MaxStoreItems
    /\ writes[i].op # "add" => pos = 1
    /\ storeKB' = appliedKB(writes[i], pos)
    /\ storeConfig' = appliedConfig(writes[i])
    /\ writes' = removeAt(writes, i)
    /\ IF writes[i].op = "add"
       THEN newItemTitle' = <<>> /\ newItemContent' = <<>> /\ UNCHANGED newItemCategory
       ELSE UNCHANGED formVars
    /\ showIfAny(successAlert(writes[i]))
    /\ UNCHANGED <<view, apiKey, typedKey, seenConfig, knowledgeBase, variant, now, kwVars,
                   chatVars, gateVars, authVars>>

\* the awaited write rejects: the store is as before, the catch block runs
WriteFails(i, code) ==
    /\ i \in 1..Len(writes)
    /\ writes' = removeAt(writes, i)
    /\ showIfAny(failureAlert(writes[i], code))
    /\ UNCHANGED <<storeKB, storeConfig, view, apiKey, typedKey, seenConfig, knowledgeBase, variant, now,
                   kwVars, chatVars, gateVars, formVars, authVars>>

\* another client of the same store deletes a record
OtherClientDeletes(id) ==
    /\ id \in idsOf(storeKB)
    /\ storeKB' = withoutId(storeKB, id)
    /\ UNCHANGED <<storeConfig, writes, view, apiKey, typedKey, seenConfig, knowledgeBase, variant, now,
                   alerts, kwVars, chatVars, gateVars, formVars, authVars>>

\* another client of the same store saves a key
OtherClientSavesKey(k) ==
    /\ storeConfig # ConfigDoc(k)
    /\ storeConfig' = ConfigDoc(k)
    /\ UNCHANGED <<storeKB, writes, view, apiKey, typedKey, seenConfig, knowledgeBase, variant, now,
                   alerts, kwVars, chatVars, gateVars, formVars, authVars>>

-----------------------------------------------------------------------------
(* The chat: every copy of the component, a store that holds one record and *)
(* a key, and the user typing, sending and clearing                         *)

ChatStoreKB == <<shapeItem(DocId(1), 1)>>

InitChat ==
    /\ \E v \in Variants, saved \in SavedEntries : InitComponent(v, saved)
    /\ storeKB = ChatStoreKB
    /\ storeConfig = ConfigDoc("AIza-1")
    /\ KeywordsIdle

NextChat ==
    \/ \E s \in ChatInputs : setInput(s)
    \/ ClickSend
    \/ PressEnter
    \/ \E i \in 1..Len(calls), o \in Outcomes : SettleCall(i, o)
    \/ \E confirmed \in BOOLEAN : handleClearHistory(confirmed)
    \/ ClockTick
    \/ \E u \in Users : SignInSucceeds(u)
    \/ KnowledgeSnapshot
    \/ ConfigSnapshot

SpecChat == InitChat /\ [][NextChat]_vars

\* the calls that can be open at once: each needs room for its user message
\* and for its answer after the welcome message
MaxOpenCalls == (MaxMessages - 1) \div 2

\* the endpoint answers: fetch resolves or rejects for every call issued,
\* whichever place the call has among the open ones
SettlesEventually ==
    \A i \in 1..MaxOpenCalls : WF_vars(\E o \in Outcomes : SettleCall(i, o))

SpecChatFair == SpecChat /\ SettlesEventually

-----------------------------------------------------------------------------
(* The admin gate with every password of Passwords, and the fields of the   *)
(* panel that no handler of the gate reads                                  *)

InitGate ==
    /\ \E v \in Variants : InitComponent(v, NoEntry)
    /\ storeKB = <<>>
    /\ storeConfig = NoDoc
    /\ KeywordsIdle

NextGate ==
    \/ \E v \in {"chat", "admin"} : setView(v)
    \/ \E p \in Passwords : setAdminPasswordInput(p)
    \/ handleAdminLogin
    \/ lockTerminal
    \/ \E k \in Keys : setApiKey(k)
    \/ \E c \in FormCategories : setNewItemCategory(c)

SpecGate == InitGate /\ [][NextGate]_vars

-----------------------------------------------------------------------------
(* The knowledge panel: the gate opened with the right password, the title  *)
(* and content of the new-item form, the add and delete writes, the store   *)
(* and its knowledge subscription                                           *)

AdminStoreKB == <<shapeItem(DocId(1), 1)>>

InitAdmin ==
    /\ \E v \in Variants : InitComponent(v, NoEntry)
    /\ storeKB = AdminStoreKB
    /\ storeConfig = NoDoc
    /\ KeywordsIdle

NextAdmin ==
    \/ setView("admin")
    \/ setAdminPasswordInput(AdminPassword)
    \/ handleAdminLogin
    \/ lockTerminal
    \/ \E t \in FormTitles : setNewItemTitle(t)
    \/ \E c \in FormContents : setNewItemContent(c)
    \/ handleAddItem
    \/ \E id \in idsOf(knowledgeBase) : handleDeleteItem(id)
    \/ \E i \in 1..Len(writes), pos \in 1..(Len(storeKB) + 1) : WriteSucceeds(i, pos)
    \/ \E i \in 1..Len(writes), code \in FailureCodes : WriteFails(i, code)
    \/ \E id \in idsOf(storeKB) : OtherClientDeletes(id)
    \/ \E u \in Users : SignInSucceeds(u)
    \/ SessionLost
    \/ KnowledgeSnapshot
    \/ KnowledgeReadError

SpecAdmin == InitAdmin /\ [][NextAdmin]_vars

-----------------------------------------------------------------------------
(* The shared key: the gate, the key field, the save, the store's config    *)
(* document and its subscription                                            *)

InitConfig ==
    /\ \E v \in Variants : InitComponent(v, NoEntry)
    /\ storeKB = <<>>
    /\ storeConfig \in {NoDoc, ConfigDoc("AIza-1")}
    /\ KeywordsIdle

NextConfig ==
    \/ \E v \in {"chat", "admin"} : setView(v)
    \/ setAdminPasswordInput(AdminPassword)
    \/ handleAdminLogin
    \/ lockTerminal
    \/ \E k \in Keys : setApiKey(k)
    \/ handleSaveSettings
    \/ \E i \in 1..Len(writes) : WriteSucceeds(i, 1)
    \/ \E i \in 1..Len(writes), code \in FailureCodes : WriteFails(i, code)
    \/ \E k \in Keys : OtherClientSavesKey(k)
    \/ \E u \in Users : SignInSucceeds(u)
    \/ \E m \in AuthErrorMessages : SignInFails(m)
    \/ SessionLost
    \/ ConfigSnapshot

SpecConfig == InitConfig /\ [][NextConfig]_vars

-----------------------------------------------------------------------------
(* Every store operation of the component - the two subscriptions and the    *)
(* three writes - with the session coming and going                          *)

InitAccess ==
    /\ \E v \in Variants : InitComponent(v, NoEntry)
    /\ storeKB = AdminStoreKB
    /\ storeConfig = ConfigDoc("AIza-1")
    /\ KeywordsIdle

NextAccess ==
    \/ setView("admin")
    \/ setAdminPasswordInput(AdminPassword)
    \/ handleAdminLogin
    \/ setNewItemTitle(Swarm)
    \/ setNewItemContent(the \o space \o data)
    \/ handleSaveSettings
    \/ handleAddItem
    \/ \E id \in idsOf(knowledgeBase) : handleDeleteItem(id)
    \/ \E i \in 1..Len(writes) : WriteSucceeds(i, 1)
    \/ \E u \in Users : SignInSucceeds(u)
    \/ SessionLost
    \/ KnowledgeSnapshot
    \/ ConfigSnapshot

SpecAccess == InitAccess /\ [][NextAccess]_vars

-----------------------------------------------------------------------------
(* The whole panel behind the gate: the gate locked and unlocked again, and *)
(* the three writes                                                         *)

InitPanel ==
    /\ \E v \in Variants : InitComponent(v, NoEntry)
    /\ storeKB = AdminStoreKB
    /\ storeConfig = ConfigDoc("AIza-1")
    /\ KeywordsIdle

NextPanel ==
    \/ \E v \in {"chat", "admin"} : setView(v)
    \/ \E p \in {"", AdminPassword} : setAdminPasswordInput(p)
    \/ handleAdminLogin
    \/ lockTerminal
    \/ setNewItemTitle(Swarm)
    \/ setNewItemContent(the \o space \o data)
    \/ handleSaveSettings
    \/ handleAddItem
    \/ \E id \in idsOf(knowledgeBase) : handleDeleteItem(id)
    \/ \E i \in 1..Len(writes) : WriteSucceeds(i, 1)
    \/ \E u \in Users : SignInSucceeds(u)
    \/ KnowledgeSnapshot
    \/ ConfigSnapshot

SpecPanel == InitPanel /\ [][NextPanel]_vars

-----------------------------------------------------------------------------
(* The subscription callbacks firing while the user is busy elsewhere: a    *)
(* send under way, a failed login, a half-filled new-item form; the store   *)
(* changed by other clients                                                 *)

InitCallbacks ==
    /\ \E v \in Variants : InitComponent(v, NoEntry)
    /\ storeKB = AdminStoreKB
    /\ storeConfig = ConfigDoc("AIza-1")
    /\ KeywordsIdle

NextCallbacks ==
    \/ \E v \in {"chat", "admin"} : setView(v)
    \/ \E p \in {"", AdminPassword} : setAdminPasswordInput(p)
    \/ handleAdminLogin
    \/ lockTerminal
    \/ setNewItemTitle(Swarm)
    \/ setInput(swarm \o space \o data)
    \/ PressEnter
    \/ \E i \in 1..Len(calls) : SettleCall(i, Outcome("reply", <<>>))
    \/ \E id \in idsOf(storeKB) : OtherClientDeletes(id)
    \/ OtherClientSavesKey("AIza-2")
    \/ \E u \in Users : SignInSucceeds(u)
    \/ KnowledgeSnapshot
    \/ KnowledgeReadError
    \/ ConfigSnapshot

SpecCallbacks == InitCallbacks /\ [][NextCallbacks]_vars

-----------------------------------------------------------------------------
(* Properties of extractKeywords (SpecKeywords) *)

\* the words of the text as extractKeywords sees them, before its two filters
normalizedWords == splitWhitespace(stripNonWord(toLowerCase(text)))

firstIndexIn(a, w) == CHOOSE i \in 1..Len(a) : a[i] = w /\ \A j \in 1..(i - 1) : a[j] # w

\* C9: extractKeywords is idempotent on its own output: applied to its tokens
\* joined by single spaces it returns the same tokens in the same order.
C9_Idempotent == kwPc = "rejoined" => rejoined = keywords

\* two tokens came out, one of them from a word that carried punctuation
C9_Witness ==
    /\ kwPc = "rejoined"
    /\ Len(keywords) >= 2
    /\ stripNonWord(text) # text

\* C10: every token of extractKeywords(text) is longer than 3, lowercase and
\* free of non-word characters, no token occurs twice, the tokens are in the
\* order of their first occurrence in the text, and every word of the text
\* longer than 3 is among them.
C10_Shape ==
    kwPc # "idle" =>
        /\ \A i \in 1..Len(keywords) :
              /\ Len(keywords[i]) > 3
              /\ \A k \in 1..Len(keywords[i]) :
                    keywords[i][k] \in LowerChars \cup DigitChars \cup {"_"}
              /\ \E n \in 1..Len(normalizedWords) : normalizedWords[n] = keywords[i]
        /\ \A i, j \in 1..Len(keywords) : i # j => keywords[i] # keywords[j]
        /\ \A i, j \in 1..Len(keywords) :
              i < j => firstIndexIn(normalizedWords, keywords[i])
                         < firstIndexIn(normalizedWords, keywords[j])
        /\ \A n \in 1..Len(normalizedWords) :
              Len(normalizedWords[n]) > 3 =>
                  \E i \in 1..Len(keywords) : keywords[i] = normalizedWords[n]

\* a text with a repeated long word, an upper-case letter and a short word
C10_Witness ==
    /\ kwPc = "extracted"
    /\ Len(keywords) >= 1
    /\ Len(longWords(normalizedWords)) > Len(keywords)
    /\ toLowerCase(text) # text
    /\ Len(normalizedWords) > Len(longWords(normalizedWords))

-----------------------------------------------------------------------------
(* Properties of the retrieval step (SpecRetrieval) *)

positionInKB(item) ==
    CHOOSE n \in 1..Len(knowledgeBase) : knowledgeBase[n].id = item.id

\* C1: the items the retrieval step keeps are at most 5, each with a score
\* above 0, in non-increasing score order, and items of equal score keep the
\* relative order they have in the knowledge base.
C1_TopFive ==
    \A c \in 1..Len(calls) :
        LET kept == calls[c].relevant
        IN  /\ Len(kept) <= 5
            /\ \A j \in 1..Len(kept) :
                  /\ kept[j].score > 0
                  /\ \E n \in 1..Len(calls[c].scored) : calls[c].scored[n] = kept[j]
            /\ \A j, k \in 1..Len(kept) :
                  j < k =>
                     /\ kept[j].score >= kept[k].score
                     /\ kept[j].score = kept[k].score =>
                           positionInKB(kept[j].item) < positionInKB(kept[k].item)

\* more than five items scored above 0, so the slice cut some; among the five
\* kept there is a tie and there is a strict descent
C1_Witness ==
    \E c \in 1..Len(calls) :
        LET kept == calls[c].relevant
        IN  /\ Len(kept) = 5
            /\ Len(positive(calls[c].scored)) > 5
            /\ \E j \in 1..4 : kept[j].score = kept[j + 1].score
            /\ \E j \in 1..4 : kept[j].score > kept[j + 1].score

\* C2: an item whose title the query contains, compared without case, scores
\* at least 10 plus its keyword-overlap points.
C2_TitleInQuery ==
    \A c \in 1..Len(calls) :
        \A n \in 1..Len(calls[c].scored) :
            LET e == calls[c].scored[n]
                q == calls[c].userMsg.content
            IN  includes(toLowerCase(q), toLowerCase(e.item.title)) =>
                    e.score >= 10 + keywordOverlap(e.item, extractKeywords(q), 1)

\* the calls of the worked example
tokenomicsCalls ==
    { c \in 1..Len(calls) :
        /\ knowledgeBase = TokenomicsKB
        /\ calls[c].userMsg.content = TokenomicsQuery }

tokenomicsScoreIs(n) ==
    \A c \in tokenomicsCalls :
        /\ Len(calls[c].scored) = 1
        /\ calls[c].scored[1].score = n
        /\ calls[c].relevant = calls[c].scored

\* C11 (as amended): for the knowledge base of the single item Tokenomics and
\* the query "What is the tokenomics supply?" the item's score is 5 (no title
\* bonus, +2 and +2 for "tokenomics" and "supply" in the keyword set, +1 for
\* "supply" in the content; "tokenomics" is not in the content) and the item
\* is retained.
C11_TokenomicsScore == tokenomicsScoreIs(5)

\* C11 as stated: the score is 6.
C11_AsStated == tokenomicsScoreIs(6)

\* the example was sent and its item kept
C11_Witness ==
    /\ tokenomicsCalls # {}
    /\ \A c \in tokenomicsCalls :
          /\ extractKeywords(calls[c].userMsg.content)
                 = << <<"w", "h", "a", "t">>, TokenomicsKeywords[1], TokenomicsKeywords[3] >>
          /\ Len(calls[c].relevant) = 1
          /\ calls[c].relevant[1].item.title = TokenomicsTitle

\* C12: the context put into the prompt is never empty; when the knowledge
\* base is empty, and whenever no item scores above 0, it is the placeholder
\* "No specific database matches found."; and a send with a key always gets
\* as far as its request, for every knowledge base and query (the retrieval
\* step fails for none).
C12_ContextNeverEmpty ==
    /\ \A c \in 1..Len(calls) :
          /\ calls[c].context # <<>>
          /\ (\A n \in 1..Len(calls[c].scored) : calls[c].scored[n].score <= 0) =>
                calls[c].context = <<"No specific database matches found.">>
          /\ knowledgeBase = <<>> =>
                calls[c].context = <<"No specific database matches found.">>
    /\ (apiKey # "" /\ Len(messages) > 1) =>
          /\ Len(calls) = 1
          /\ \A n \in 1..Len(messages) : messages[n].role # "system"

\* a knowledge base that has items, none of which the query touches
C12_Witness ==
    \E c \in 1..Len(calls) :
        /\ Len(calls[c].scored) >= 2
        /\ \A n \in 1..Len(calls[c].scored) : calls[c].scored[n].score = 0
        /\ calls[c].context = NoMatchesPlaceholder

\* C19: the score of an item, less the 10 of the title test, is 2 for every
\* keyword of the query that is in the item's keyword set plus 1 for every
\* keyword of the query that is a substring of the item's lowercased content,
\* the two counted independently (3 for a keyword that is both); an item with
\* no keyword field gets the content points only.
C19_KeywordPoints ==
    \A c \in 1..Len(calls) :
        \A n \in 1..Len(calls[c].scored) :
            LET e == calls[c].scored[n]
                q == calls[c].userMsg.content
                qk == extractKeywords(q)
                inSet == { i \in 1..Len(qk) :
                             /\ e.item.hasKeywords
                             /\ \E k \in 1..Len(e.item.keywords) : e.item.keywords[k] = qk[i] }
                inContent == { i \in 1..Len(qk) :
                                 includes(toLowerCase(e.item.content), qk[i]) }
                titlePart == IF includes(toLowerCase(e.item.title), toLowerCase(q))
                             THEN 10 ELSE 0
            IN  /\ e.score - titlePart = 2 * Cardinality(inSet) + Cardinality(inContent)
                /\ ~e.item.hasKeywords => e.score - titlePart = Cardinality(inContent)

\* one item scores 3 for each of two keywords, another, without keyword
\* field, scores 1 for the one keyword its content holds
C19_Witness ==
    \E c \in 1..Len(calls) :
        /\ Len(extractKeywords(calls[c].userMsg.content)) = 2
        /\ \E n \in 1..Len(calls[c].scored) :
              calls[c].scored[n].item.hasKeywords /\ calls[c].scored[n].score = 6
        /\ \E n \in 1..Len(calls[c].scored) :
              ~calls[c].scored[n].item.hasKeywords /\ calls[c].scored[n].score = 1

-----------------------------------------------------------------------------
(* Properties of the chat (SpecChat) *)

\* a send that gets past the blank test
acceptedSend == (ClickSend \/ PressEnter) /\ trim(input) # <<>>

keepsMessages ==
    /\ Len(messages') >= Len(messages)
    /\ SubSeq(messages', 1, Len(messages)) = messages

appendedMessages == SubSeq(messages', Len(messages) + 1, Len(messages'))

\* the step appends a user message right after the messages there were
appendsUserMessage ==
    /\ Len(messages') > Len(messages)
    /\ keepsMessages
    /\ messages'[Len(messages) + 1].role = "user"

keylessOutcome(content) ==
    /\ Len(messages') = Len(messages) + 2
    /\ keepsMessages
    /\ messages'[Len(messages) + 1].role = "user"
    /\ messages'[Len(messages) + 1].content = input
    /\ messages'[Len(messages) + 2].role = "system"
    /\ messages'[Len(messages) + 2].content = content
    /\ calls' = calls

\* C3 (as amended): a send of non-blank input while apiKey is empty appends,
\* after the user message, one system message whose text is "Error: " followed
\* by the fixed System Offline message, and issues no request.
C3_KeylessSend ==
    [][(acceptedSend /\ apiKey = "") =>
           keylessOutcome(<<"Error: ">> \o OfflineMessage)]_vars

\* C3 as stated: the text of the system message is exactly the fixed System
\* Offline message.
C3_AsStated ==
    [][(acceptedSend /\ apiKey = "") => keylessOutcome(OfflineMessage)]_vars

\* the chat right after a keyless send
C3_Witness ==
    /\ apiKey = ""
    /\ calls = <<>>
    /\ ~isLoading
    /\ Len(messages) >= 2
    /\ messages[Len(messages) - 1].role = "user"
    /\ messages[Len(messages)].role = "system"
    /\ messages[Len(messages)].content = <<"Error: ">> \o OfflineMessage

\* C4: every accepted send gets exactly one message besides its user message,
\* whatever the outcome: the keyless send appends it in its own step, a send
\* with a key opens one call, the end of a call appends exactly one ai or
\* system message and closes that call only, nothing else appends a reply; and
\* isLoading is false when the handling of a send ends.
C4_OneReplyPerSend ==
    [][/\ (acceptedSend /\ apiKey = "") =>
              /\ Len(messages') = Len(messages) + 2
              /\ appendsUserMessage
              /\ messages'[Len(messages')].role \in {"ai", "system"}
              /\ calls' = calls
              /\ isLoading' = FALSE
       /\ (acceptedSend /\ apiKey # "") =>
              /\ Len(messages') = Len(messages) + 1
              /\ appendsUserMessage
              /\ Len(calls') = Len(calls) + 1
              /\ SubSeq(calls', 1, Len(calls)) = calls
       /\ Len(calls') < Len(calls) =>
              /\ \E i \in 1..Len(calls) : calls' = removeAt(calls, i)
              /\ Len(messages') = Len(messages) + 1
              /\ keepsMessages
              /\ messages'[Len(messages')].role \in {"ai", "system"}
              /\ isLoading' = FALSE
       /\ (/\ Len(messages') > Len(messages)
           /\ messages'[Len(messages')].role \in {"ai", "system"}) =>
              \/ Len(calls') < Len(calls)
              \/ acceptedSend /\ apiKey = ""
      ]_vars

\* two sends, both settled: the first with a reply, the second with an error
C4_Witness ==
    /\ calls = <<>>
    /\ ~isLoading
    /\ Len(messages) = 5
    /\ messages[2].role = "user"
    /\ messages[3].role = "ai"
    /\ messages[4].role = "user"
    /\ messages[5].role = "system"
    /\ messages[5].content # <<"Error: ">> \o OfflineMessage

\* C5: while isLoading is true no step appends a user message or opens a call.
C5_BusyRejectsSend ==
    [][isLoading =>
           /\ Len(calls') <= Len(calls)
           /\ ~appendsUserMessage]_vars

\* C6 as stated: every step leaves messages as it is or adds exactly one
\* message at its end; a user message comes with the start of its call, a
\* reply or error only with the end of a call.
C6_AsStated ==
    [][\/ messages' = messages
       \/ /\ Len(messages') = Len(messages) + 1
          /\ keepsMessages
          /\ \/ /\ messages'[Len(messages')].role = "user"
                /\ Len(calls') = Len(calls) + 1
             \/ /\ messages'[Len(messages')].role \in {"ai", "system"}
                /\ Len(calls') = Len(calls) - 1
      ]_vars

\* C6 (as amended): apart from a confirmed clear-history of the persistent
\* copy, which leaves the welcome message alone, every step keeps the messages
\* there were, in place, and adds at the end nothing, or the user message of a
\* send together with the start of its call, or the one message of a call that
\* ends, or - for a send with no key - the user message directly followed by
\* its error; in the copies without clear-history the user message of a call
\* that ends is among the messages already.
C6_AppendOnly ==
    [][\/ messages' = messages
       \/ /\ variant = "persistent"
          /\ messages' = <<Welcome(variant, now)>>
          /\ calls' = calls
       \/ /\ keepsMessages
          /\ \/ /\ Len(appendedMessages) = 1
                /\ appendedMessages[1].role = "user"
                /\ Len(calls') = Len(calls) + 1
                /\ calls' = Append(calls, calls'[Len(calls')])
                /\ calls'[Len(calls')].userMsg = appendedMessages[1]
             \/ /\ Len(appendedMessages) = 1
                /\ appendedMessages[1].role \in {"ai", "system"}
                /\ \E i \in 1..Len(calls) :
                      /\ calls' = removeAt(calls, i)
                      /\ variant # "persistent" =>
                            \E k \in 1..Len(messages) : messages[k] = calls[i].userMsg
             \/ /\ Len(appendedMessages) = 2
                /\ apiKey = ""
                /\ appendedMessages[1].role = "user"
                /\ appendedMessages[2].role = "system"
                /\ calls' = calls
      ]_vars

\* two sends one after the other, the first call ended and its reply placed
\* after both user messages, the second call still open
C6_Witness ==
    /\ Len(messages) = 4
    /\ messages[2].role = "user"
    /\ messages[3].role = "user"
    /\ messages[4].role = "ai"
    /\ Len(calls) = 1

\* the step settles call i with outcome o, a failure
settlesWithFailure(i, o) == o.kind \in {"apiError", "transport"} /\ SettleCall(i, o)

failureShown(content) ==
    /\ Len(messages') = Len(messages) + 1
    /\ keepsMessages
    /\ messages'[Len(messages')].role = "system"
    /\ messages'[Len(messages')].content = content
    /\ isLoading' = FALSE

\* C13 (as amended): a completion call that fails - no key, a transport
\* error, an error field in the payload - throws nothing to the caller: the
\* handler runs to its end, and one system message is appended whose content
\* is "Error: " followed by the error's message text.
C13_FailureShown ==
    [][/\ Len(calls') < Len(calls) =>
              \A i \in 1..Len(calls) : \A o \in Outcomes :
                  settlesWithFailure(i, o) => failureShown(<<"Error: ">> \o o.text)
       /\ (apiKey = "" /\ acceptedSend) =>
              /\ Len(messages') = Len(messages) + 2
              /\ messages'[Len(messages')].role = "system"
              /\ messages'[Len(messages')].content = <<"Error: ">> \o OfflineMessage
              /\ isLoading' = FALSE
      ]_vars

\* C13 as stated: the content of the system message is the error's message
\* text verbatim.
C13_AsStated ==
    [][Len(calls') < Len(calls) =>
           \A i \in 1..Len(calls) : \A o \in Outcomes :
               settlesWithFailure(i, o) => failureShown(o.text)]_vars

\* one send, ended by a transport error
C13_Witness ==
    /\ calls = <<>>
    /\ ~isLoading
    /\ Len(messages) = 3
    /\ messages[2].role = "user"
    /\ messages[3].role = "system"
    /\ \E m \in TransportErrorMessages : messages[3].content = <<"Error: ">> \o m

\* the step settles call i with outcome o, a payload without an error field
settlesWithPayload(i, o) == o.kind \in {"reply", "noCandidates"} /\ SettleCall(i, o)

\* C14: a payload with no error field and no text at
\* candidates[0].content.parts[0] (a text that is the empty string counts as
\* none) gives a message of role ai with the text "Communication error with
\* neural net.", never a system message; a payload with a text gives an ai
\* message with exactly that text.
C14_ReplyOrFallback ==
    [][Len(calls') < Len(calls) =>
           \A i \in 1..Len(calls) : \A o \in Outcomes :
               settlesWithPayload(i, o) =>
                   /\ Len(messages') = Len(messages) + 1
                   /\ keepsMessages
                   /\ messages'[Len(messages')].role = "ai"
                   /\ messages'[Len(messages')].content =
                          IF o.kind = "reply" /\ o.text # <<>>
                          THEN o.text
                          ELSE <<"Communication error with neural net.">>
      ]_vars

\* one send, answered by a payload without candidates or with an empty text
C14_Witness ==
    /\ calls = <<>>
    /\ Len(messages) = 3
    /\ messages[2].role = "user"
    /\ messages[3].role = "ai"
    /\ messages[3].content = FallbackReply

\* C17: in the persistent copy a confirmed clear-history, with the effects it
\* triggers, leaves messages as the single welcome message and the key
\* swarm_chat_history absent; a declined one changes neither.
C17_ClearRemovesKey ==
    [][/\ handleClearHistory(TRUE) =>
              /\ Len(messages') = 1
              /\ messages'[1].id = <<"welcome">>
              /\ messages'[1].role = "ai"
              /\ messages'[1].content = WelcomeText("persistent")
              /\ storage' = NoEntry
       /\ handleClearHistory(FALSE) => UNCHANGED <<messages, storage>>
      ]_vars

\* C18: in the persistent copy messages start as the parsed stored value
\* when the key holds parseable JSON and as the single welcome message
\* otherwise; and in every state between two steps the value under
\* swarm_chat_history is the JSON serialization of the current messages, which
\* the initializer of a reload parses back to exactly these messages.
C18_StoredIsCurrent ==
    /\ variant = "persistent" =>
          \/ messages = <<Welcome("persistent", 0)>>
          \/ \E saved \in SavedEntries :
                saved.kind = "json" /\ messages = JSONparse(saved.value)
    /\ [](variant = "persistent" =>
              /\ storage.kind = "json"
              /\ storage.value = JSONstringify(messages)
              /\ initialMessages("persistent", storage) = messages)

\* a history taken over from an earlier session, its text holding a quote, a
\* backslash and a line break, and grown by a send and its reply
C18_Witness ==
    /\ variant = "persistent"
    /\ Len(messages) = 4
    /\ messages[2].timestamp = 0 - 2
    /\ \E k \in 1..Len(messages[2].content) : messages[2].content[k] = "\\"
    /\ messages[3].role = "user"
    /\ messages[4].role = "ai"
    /\ storage.value = JSONstringify(messages)

-----------------------------------------------------------------------------
(* Properties of the knowledge list (SpecAdmin) *)

\* C7: knowledgeBase changes only in the step that delivers a snapshot, to
\* what the store holds then; a delete or create request, and the success or
\* failure of its write, leave it as it is; an item leaves the list only when
\* the snapshot delivered has it no more.
C7_ListFollowsSnapshots ==
    [][/\ knowledgeBase' # knowledgeBase =>
              /\ subscribed
              /\ knowledgeBase' = storeKB
              /\ UNCHANGED <<storeKB, writes, alerts>>
       /\ (writes' # writes \/ storeKB' # storeKB) => knowledgeBase' = knowledgeBase
      ]_vars

\* a delete request is on its way and the item is still on the list
C7_Witness ==
    /\ writes # <<>>
    /\ writes[1].op = "delete"
    /\ \E i \in 1..Len(knowledgeBase) : knowledgeBase[i].id = writes[1].id

\* C15: every store write that fails is answered by an alert, and for a
\* permission rejection the alert is one of the permission-denied messages.
C15_FailedWriteAlerts ==
    [][\A i \in 1..Len(writes) : \A code \in FailureCodes :
           WriteFails(i, code) =>
               /\ Len(alerts') = Len(alerts) + 1
               /\ code = "permission-denied" =>
                     alerts'[Len(alerts')] \in
                         { <<"Permission Denied: Go to Firebase Console > Firestore > Rules and change 'allow write: if false' to 'allow write: if true'.">>,
                           <<"Permission Denied: Check Firestore Rules in Firebase Console.">> }
      ]_vars

\* C20: a create request issues a write only when the title and the content
\* of the form are both non-empty, and the record written has the form's
\* title, category and content and the keywords
\* extractKeywords(title + ' ' + content + ' ' + category); with an empty
\* title or an empty content nothing is written and the form stays as it is.
C20_CreateValidated ==
    [][/\ (Len(writes') > Len(writes) /\ writes'[Len(writes')].op = "add") =>
              /\ newItemTitle # <<>>
              /\ newItemContent # <<>>
              /\ writes'[Len(writes')].item.title = newItemTitle
              /\ writes'[Len(writes')].item.category = newItemCategory
              /\ writes'[Len(writes')].item.content = newItemContent
              /\ writes'[Len(writes')].item.keywords =
                     extractKeywords(newItemTitle \o <<" ">> \o newItemContent
                                     \o <<" ">> \o newItemCategory)
       /\ (handleAddItem /\ (newItemTitle = <<>> \/ newItemContent = <<>>)) =>
              UNCHANGED <<writes, storeKB, newItemTitle, newItemCategory, newItemContent>>
      ]_vars

\* a create under way for the title "Swarm" and the content "the data" in
\* category General
C20_Witness ==
    /\ writes # <<>>
    /\ writes[1].op = "add"
    /\ writes[1].item.title = Swarm
    /\ writes[1].item.keywords = <<swarm, data, <<"g", "e", "n", "e", "r", "a", "l">> >>

-----------------------------------------------------------------------------
(* Properties of the access to the store (SpecAccess) *)

\* C16: no store operation happens while user is null: a write is issued
\* only with a user, a snapshot of the knowledge collection or of the config
\* document is delivered only with a user (the subscriptions are open from the
\* first user on and closed when the user goes), and before the first user
\* nothing has been read or written.
C16_NoStoreAccessWithoutUser ==
    /\ [][/\ Len(writes') > Len(writes) => user # NoUser
          /\ knowledgeBase' # knowledgeBase => (user # NoUser /\ knowledgeBase' = storeKB)
          /\ apiKey' # apiKey => (user # NoUser /\ apiKey' = storeConfig.apiKey)
         ]_vars
    /\ [](signIn = "pending" =>
              /\ user = NoUser
              /\ knowledgeBase = <<>>
              /\ apiKey = ""
              /\ writes = <<>>)

\* the session is gone, a create was asked for in the persistent copy and
\* turned away with its alert, nothing was written
C16_Witness ==
    /\ variant = "persistent"
    /\ user = NoUser
    /\ signIn = "ok"
    /\ knowledgeBase # <<>>
    /\ alerts = <<NotAuthenticatedAlert>>
    /\ writes = <<>>
    /\ storeKB = AdminStoreKB

-----------------------------------------------------------------------------
(* Properties of the admin gate (SpecGate) *)

\* C8: a login attempt with any password other than exactly ".m4nt1ss4"
\* leaves isAdminUnlocked false and sets loginError; one with exactly that
\* password sets isAdminUnlocked and empties the password field.
C8_Login ==
    [][handleAdminLogin =>
           IF adminPasswordInput = ".m4nt1ss4"
           THEN isAdminUnlocked' /\ adminPasswordInput' = ""
           ELSE ~isAdminUnlocked' /\ loginError' /\ ~isAdminUnlocked
      ]_vars

\* the password in upper case was tried and turned away
C8_Witness ==
    /\ adminPasswordInput = ".M4NT1SS4"
    /\ loginError
    /\ ~isAdminUnlocked

-----------------------------------------------------------------------------
(* Properties of the panel behind the gate (SpecPanel) *)

\* C21: every write this client issues - the save of the config document,
\* the create and the delete of a knowledge record - is issued in a state
\* where isAdminUnlocked is true (and the admin view is the one shown).
C21_WritesBehindGate ==
    [][Len(writes') > Len(writes) =>
           /\ writes'[Len(writes')].op \in {"setConfig", "add", "delete"}
           /\ isAdminUnlocked
           /\ view = "admin"
      ]_vars

\* a save of the key is under way and the terminal has been locked since
C21_Witness ==
    /\ Len(writes) = 1
    /\ writes[1].op = "setConfig"
    /\ writes[1].key = "AIza-1"
    /\ ~isAdminUnlocked

-----------------------------------------------------------------------------
(* Properties of the error flag of the gate (SpecGate) *)

\* the step edits the password field
editsPassword == \E p \in Passwords : setAdminPasswordInput(p)

\* the step is a login attempt with the right password
logsInRight == handleAdminLogin /\ adminPasswordInput = ".m4nt1ss4"

\* C22 as stated: after a failed attempt, editing the password field or
\* logging in with the correct password leaves loginError false.
C22_AsStated ==
    [][(loginError /\ (editsPassword \/ logsInRight)) => ~loginError']_vars

\* C22: the error flag clears on the next successful login only: logging in
\* with the correct password leaves loginError false, editing the password
\* field leaves loginError as it was, and no other step clears the flag.
C22_ClearsOnLogin ==
    [][/\ logsInRight => ~loginError'
       /\ editsPassword => loginError' = loginError
       /\ (loginError /\ ~loginError') =>
              /\ ~isAdminUnlocked /\ isAdminUnlocked'
              /\ adminPasswordInput = ".m4nt1ss4"
      ]_vars

\* after a failed attempt the right password has been typed and the flag is
\* still up
C22_Witness ==
    /\ loginError
    /\ adminPasswordInput = ".m4nt1ss4"
    /\ ~isAdminUnlocked

-----------------------------------------------------------------------------
(* Properties of the sign-in and of the shared key (SpecConfig) *)

\* after a failed sign-in: no user, so no subscription and no write
storeAccessBlocked ==
    /\ user = NoUser
    /\ ~subscribed
    /\ knowledgeBase = <<>>
    /\ writes = <<>>

\* C23: once the sign-in has failed the auth-error state is set and stays
\* set, the user handle stays null, no subscription is opened and no write
\* is issued.
C23_SignInFailureSurfaced ==
    signIn = "failed" => (authError # <<>> /\ storeAccessBlocked)

\* the part of C23 that every copy keeps: a failed sign-in blocks the store
C23_StoreBlocked ==
    signIn = "failed" => storeAccessBlocked

-----------------------------------------------------------------------------
(* Properties of the subscription callbacks (SpecCallbacks) *)

\* the fields no subscription callback may touch
localEdits ==
    <<messages, input, isLoading, adminPasswordInput, isAdminUnlocked,
      loginError, newItemTitle, newItemCategory, newItemContent>>

\* C24: a knowledge snapshot changes only knowledgeBase, a config snapshot
\* changes only apiKey, a knowledge read error changes nothing; none of them
\* changes messages, input, isLoading, the admin flags, the password field
\* or the fields of the new-item form.
C24_CallbacksKeepOthers ==
    [][/\ KnowledgeSnapshot =>
              /\ localEdits' = localEdits
              /\ apiKey' = apiKey
              /\ <<view, user, authError, calls>>' = <<view, user, authError, calls>>
       /\ ConfigSnapshot =>
              /\ localEdits' = localEdits
              /\ knowledgeBase' = knowledgeBase
              /\ <<view, user, authError, calls>>' = <<view, user, authError, calls>>
       /\ KnowledgeReadError =>
              /\ localEdits' = localEdits
              /\ knowledgeBase' = knowledgeBase
              /\ apiKey' = apiKey
       /\ (knowledgeBase' # knowledgeBase \/ apiKey' # apiKey) =>
              localEdits' = localEdits
      ]_vars

\* a call is under way, sent with the first key and with the one record in
\* the list; since then another key and an empty collection have come in,
\* while a typed text, a failed login and a typed title are still there
C24_Witness ==
    /\ isLoading
    /\ Len(calls) = 1
    /\ calls[1].key = "AIza-1"
    /\ calls[1].scored # <<>>
    /\ apiKey = "AIza-2"
    /\ knowledgeBase = <<>>
    /\ input # <<>>
    /\ loginError
    /\ newItemTitle # <<>>

-----------------------------------------------------------------------------
(* Properties of the chat under an endpoint that always answers             *)
(* (SpecChatFair)                                                           *)

\* the open calls of the sends made at clock reading t
openCallsSentAt(t) ==
    Cardinality({ i \in 1..Len(calls) : calls[i].userMsg.timestamp = t })

\* the last message is the answer of a call (a reply or an error) and the
\* send button is free again
answeredAndIdle ==
    /\ ~isLoading
    /\ Len(messages) >= 1
    /\ messages[Len(messages)].role \in {"ai", "system"}
    /\ messages[Len(messages)].id = ClockId(now + 1)

\* C25: if every issued call settles, a state with a call open is followed
\* by a state in which the reply or error of a call is the last message and
\* isLoading is false; and where the conversation cannot be cleared, so that
\* the sends come to an end, by such a state with one call fewer open among
\* those of the same send time, down to none.
C25_SendIsAnswered ==
    /\ (calls # <<>>) ~> answeredAndIdle
    /\ \A t \in 0..MaxClock : \A k \in 1..MaxOpenCalls :
           (variant # "persistent" /\ openCallsSentAt(t) = k)
               ~> (openCallsSentAt(t) < k /\ answeredAndIdle)

\* two sends are answered, the second by an error, and the button is free
C25_Witness ==
    /\ calls = <<>>
    /\ ~isLoading
    /\ Len(messages) = 5
    /\ messages[2].role = "user"
    /\ messages[3].role = "user"
    /\ messages[4].role = "ai"
    /\ messages[5].role = "system"

-----------------------------------------------------------------------------
(* Properties of the chat with calls overlapping (SpecChat) *)

\* C26: isLoading is true whenever at least one completion call is open
\* (issued and not yet settled), so a call that never settles keeps
\* isLoading true in every later state.
C26_LoadingWhileCallOpen ==
    calls # <<>> => isLoading


\* C27: all messages of the conversation have pairwise distinct ids, the id
\* of a user message being the clock reading at its send, that of a reply or
\* error the clock reading plus one at its settling, with the clock staying
\* equal or moving on by one between two steps.
C27_DistinctIds ==
    \A i, j \in 1..Len(messages) :
        i # j => messages[i].id # messages[j].id


\* C28: a config snapshot leaves the local apiKey equal to the apiKey of the
\* shared config document, the empty string when the document or its key is
\* gone, and so it stays until the key field is edited.
C28_LocalKeyFollowsStore ==
    [][ConfigSnapshot =>
           apiKey' = (IF storeConfig.exists THEN storeConfig.apiKey ELSE "")
      ]_vars


\* the step is a save of the key that issues its write
savesKey == handleSaveSettings /\ Len(writes') = Len(writes) + 1

\* C29: the value a save writes to the shared config document is the last
\* value typed into the key field: no config snapshot delivered between the
\* last keystroke and the save replaces the typed value.
C29_SaveWritesTypedKey ==
    [][(savesKey /\ typedKey # NotTyped) =>
           writes'[Len(writes')].key = typedKey
      ]_vars


-----------------------------------------------------------------------------
(* The reply and its question (SpecChat) *)

\* the step ends call i and appends its reply or error
endsCall(i) ==
    /\ i \in 1..Len(calls)
    /\ calls' = removeAt(calls, i)
    /\ Len(messages') = Len(messages) + 1
    /\ messages'[Len(messages')].role \in {"ai", "system"}

\* C30: in the persistent copy, whenever a call ends and its reply or error
\* is appended, the user message of the send that began the call is in the
\* sequence the reply is appended to, so that every ai or system message
\* other than the welcome message comes after the user message of its send.
C30_ReplyFollowsItsQuestion ==
    [][(variant = "persistent" /\ Len(calls') < Len(calls)) =>
           \A i \in 1..Len(calls) :
               endsCall(i) =>
                   \E k \in 1..Len(messages) : messages[k] = calls[i].userMsg
      ]_vars

=============================================================================
